---- MODULE Spec2Model ----
(***************************************************************************)
(* Model of the two components of the repository:                          *)
(*   code/09/dog.cc             class Dog and its extern "C" shim          *)
(*                              (dog_ctor, dog_dctor, dog_run,             *)
(*                              dog_distance);                             *)
(*   code/09/send_udp_packet.cc read_data and send_udp_packet over a DPI   *)
(*                              open array.                                *)
(* The two components share no state; each has a specification of its own.*)
(***************************************************************************)
EXTENDS Integers, Sequences, FiniteSets, TLC

(***************************************************************************)
(* Bounds of the model.                                                    *)
(***************************************************************************)
\* The largest value of the C++ type int, scaled down (2^31 - 1 in the build).
IntMax == 3
\* The number of storage addresses operator new can hand out.
NumAddr == 2
\* The number of dog_ctor calls of one run.
MaxHandles == 3
\* The number of dog_run calls of one run.
MaxRuns == 2
\* The number of calls of one run that pass a destroyed handle.
MaxDangling == 1
\* How far below INT_MAX the bounds of an open array reach.
MaxSpan == 4

INT_MAX == IntMax
INT_MIN == -IntMax - 1
\* The values of the C++ type int.
Int_t == INT_MIN..INT_MAX
\* Two's-complement wrap of a mathematical integer into int.
Wrap(x) == ((x - INT_MIN) % (INT_MAX - INT_MIN + 1)) + INT_MIN

\* The amounts passed to dog_run: the extremes of int and the steps around 0.
Amounts == {INT_MIN, -1, 0, 1, INT_MAX}

Addr == 1..NumAddr
HandleId == 1..MaxHandles

VARIABLES
    heap,      \* Addr -> the storage at that address: which Dog object lives
               \* there (obj = 0: none) and the object's member distance_
    handles,   \* the pointers dog_ctor has returned, in order: handle h is
               \* the pointer to object h, handles[h] its address
    hist,      \* history per handle: the number n of dog_run calls made on
               \* it and, while its object lives, their mathematical sum and
               \* whether one of the additions left the range of int
    call,      \* the last call of the shim: entry point, handle, argument,
               \* return value, the handle's lifecycle state at the call, and
               \* how the call ended
    crashed,   \* the process has been terminated (trap, abort, signal)
    dangling,  \* the number of calls made so far on a destroyed handle
    array,     \* the DPI open array handed to send_udp_packet
    net        \* the send_udp_packet call: its arguments and what it did

vars == <<heap, handles, hist, call, crashed, dangling, array, net>>

(***************************************************************************)
(* class Dog                                                               *)
(***************************************************************************)
\* Dog::Dog(): distance_(0) {}
Dog_Dog_one == [distance_ |-> 1]
Dog_Dog == [distance_ |-> 0]

\* void Dog::run(int distance) { distance_ += distance; }  The addition is
\* done in int; when the mathematical sum is not an int the behaviour is
\* undefined (see dog_run below), and the wrapped value is what a build
\* that does not trap stores.
Dog_run_set(dog, distance) == [dog EXCEPT !.distance_ = Wrap(distance)]
Dog_run_abs(dog, distance) ==
    [dog EXCEPT !.distance_ = Wrap(dog.distance_ + (IF distance < 0 THEN -distance ELSE distance))]
Dog_run(dog, distance) == [dog EXCEPT !.distance_ = Wrap(dog.distance_ + distance)]

\* Whether distance_ += distance overflows int.
Overflows(dog, distance) == (dog.distance_ + distance) \notin Int_t

\* int Dog::distance() const { return distance_; }  The value returned and
\* the object after the call (the method is const).
Dog_distance_reset(dog) == [ret |-> dog.distance_, dog |-> [dog EXCEPT !.distance_ = 0]]
Dog_distance(dog) == [ret |-> dog.distance_, dog |-> dog]

(***************************************************************************)
(* Storage: operator new and operator delete                               *)
(***************************************************************************)
FreeStorage == [obj |-> 0, dog |-> Dog_Dog]

\* The addresses a new-expression may return: any storage that holds no
\* object, a released address included.
New(hp) == {a \in Addr : hp[a].obj = 0}

\* delete ptr: the object at a ends and its storage is released.
Delete_leak(hp, a) == hp
Delete(hp, a) == [hp EXCEPT ![a] = FreeStorage]

\* ptr->run(distance) on the object at address a: distance_ is a non-static
\* member, so only that object changes.
StoreRun_static(hp, a, distance) ==
    [b \in Addr |-> IF hp[b].obj # 0
                    THEN [hp[b] EXCEPT !.dog = Dog_run(hp[b].dog, distance)]
                    ELSE hp[b]]
StoreRun(hp, a, distance) == [hp EXCEPT ![a].dog = Dog_run(hp[a].dog, distance)]

(***************************************************************************)
(* Handles                                                                 *)
(***************************************************************************)
\* The lifecycle state of handle h: not yet returned by dog_ctor, pointing
\* to its object, or pointing to storage its object has left.
Lifecycle(h) ==
    IF h > Len(handles) THEN "Uninitialized"
    ELSE IF heap[handles[h]].obj = h THEN "Live"
    ELSE "Destroyed"

LiveHandles == {h \in HandleId : Lifecycle(h) = "Live"}
DestroyedHandles == {h \in HandleId : Lifecycle(h) = "Destroyed"}

NoHist == [n |-> 0, sum |-> 0, ovf |-> FALSE]
\* The number of dog_run calls made so far on the handles 1..h.
RECURSIVE RunsUpTo(_)
RunsUpTo(h) == IF h = 0 THEN 0 ELSE hist[h].n + RunsUpTo(h - 1)
NoCall ==
    [op |-> "none", h |-> 0, arg |-> 0, ret |-> 0, pre |-> "none",
     outcome |-> "none", prev |-> "none"]
\* The record of a call; prev is the entry point of the call made just before
\* it when that call was on the same handle, and "other" when it was not.
Call(op, h, arg, ret, pre, outcome) ==
    [op |-> op, h |-> h, arg |-> arg, ret |-> ret, pre |-> pre, outcome |-> outcome,
     prev |-> IF op # "dog_distance" THEN "none"
              ELSE IF call.h = h THEN call.op ELSE "other"]

\* The marshaller's variables while only the Dog shim is exercised.
NoArray == [left |-> 0, right |-> -1, size |-> 0, elems |-> <<>>]
NoNet == [status |-> "idle"]
MarshalIdle == array = NoArray /\ net = NoNet

Init ==
    /\ heap = [a \in Addr |-> FreeStorage]
    /\ handles = <<>>
    /\ hist = [h \in HandleId |-> NoHist]
    /\ call = NoCall
    /\ crashed = FALSE
    /\ dangling = 0
    /\ MarshalIdle

(***************************************************************************)
(* The extern "C" shim, called on handles that are live                    *)
(***************************************************************************)
\* void *dog_ctor() { return new Dog(); }
dog_ctor ==
    /\ ~crashed
    /\ Len(handles) < MaxHandles
    /\ \E a \in New(heap) :
        LET h == Len(handles) + 1 IN
        /\ heap' = [heap EXCEPT ![a] = [obj |-> h, dog |-> Dog_Dog]]
        /\ handles' = Append(handles, a)
        /\ hist' = [hist EXCEPT ![h] = NoHist]
        /\ call' = Call("dog_ctor", h, 0, a, "Uninitialized", "returned")
    /\ UNCHANGED <<crashed, dangling, array, net>>

\* new Dog() with no storage left: std::bad_alloc leaves the extern "C"
\* function uncaught and the process terminates.
dog_ctor_bad_alloc ==
    /\ ~crashed
    /\ Len(handles) < MaxHandles
    /\ New(heap) = {}
    /\ crashed' = TRUE
    /\ call' = Call("dog_ctor", 0, 0, 0, "Uninitialized", "crashed")
    /\ UNCHANGED <<heap, handles, hist, dangling, array, net>>

\* void dog_dctor(void *dog) { delete reinterpret_cast<Dog*>(dog); }
dog_dctor ==
    /\ ~crashed
    /\ \E h \in LiveHandles :
        /\ heap' = Delete(heap, handles[h])
        /\ hist' = [hist EXCEPT ![h] = [NoHist EXCEPT !.n = hist[h].n]]
        /\ call' = Call("dog_dctor", h, 0, 0, "Live", "returned")
    /\ UNCHANGED <<handles, crashed, dangling, array, net>>

\* void dog_run(void *dog, int distance) { ptr->run(distance); }
\* An addition that overflows int is undefined: the build either stores the
\* wrapped value or traps.
dog_run ==
    /\ ~crashed
    /\ \E h \in LiveHandles, distance \in Amounts :
        LET a == handles[h]
            ovf == Overflows(heap[a].dog, distance)
        IN
        /\ RunsUpTo(MaxHandles) < MaxRuns
        /\ hist' = [hist EXCEPT ![h] = [n |-> @.n + 1,
                                        sum |-> @.sum + distance,
                                        ovf |-> @.ovf \/ ovf]]
        /\ \/ /\ heap' = StoreRun(heap, a, distance)
              /\ call' = Call("dog_run", h, distance, 0, "Live", "returned")
              /\ UNCHANGED crashed
           \/ /\ ovf
              /\ crashed' = TRUE
              /\ call' = Call("dog_run", h, distance, 0, "Live", "crashed")
              /\ UNCHANGED heap
    /\ UNCHANGED <<handles, dangling, array, net>>

\* int dog_distance(void *dog) { return ptr->distance(); }
dog_distance ==
    /\ ~crashed
    /\ \E h \in LiveHandles :
        LET a == handles[h]
            r == Dog_distance(heap[a].dog)
        IN
        /\ heap' = [heap EXCEPT ![a].dog = r.dog]
        /\ call' = Call("dog_distance", h, 0, r.ret, "Live", "returned")
    /\ UNCHANGED <<handles, hist, crashed, dangling, array, net>>

Next ==
    \/ dog_ctor
    \/ dog_ctor_bad_alloc
    \/ dog_dctor
    \/ dog_run
    \/ dog_distance

\* The shim under callers that pass only live handles.
Spec == Init /\ [][Next]_vars

(***************************************************************************)
(* The shim called on a handle whose object has been deleted.  The code    *)
(* casts and dereferences the pointer without any check, which is          *)
(* undefined behaviour: the process is terminated, or the access goes to   *)
(* whatever the storage at that address now holds (another Dog when the    *)
(* address has been handed out again, released storage otherwise).         *)
(***************************************************************************)
dog_run_dangling ==
    /\ ~crashed
    /\ dangling < MaxDangling
    /\ dangling' = dangling + 1
    /\ \E h \in DestroyedHandles, distance \in Amounts :
        LET a == handles[h] IN
        \/ /\ crashed' = TRUE
           /\ call' = Call("dog_run", h, distance, 0, "Destroyed", "crashed")
           /\ UNCHANGED heap
        \/ /\ heap' = IF heap[a].obj # 0 THEN StoreRun(heap, a, distance) ELSE heap
           /\ call' = Call("dog_run", h, distance, 0, "Destroyed", "returned")
           /\ UNCHANGED crashed
    /\ UNCHANGED <<handles, hist, array, net>>

dog_distance_dangling ==
    /\ ~crashed
    /\ dangling < MaxDangling
    /\ dangling' = dangling + 1
    /\ \E h \in DestroyedHandles :
        \/ /\ crashed' = TRUE
           /\ call' = Call("dog_distance", h, 0, 0, "Destroyed", "crashed")
        \/ /\ \E v \in Int_t :
                call' = Call("dog_distance", h, 0, v, "Destroyed", "returned")
           /\ UNCHANGED crashed
    /\ UNCHANGED <<heap, handles, hist, array, net>>

dog_dctor_dangling ==
    /\ ~crashed
    /\ dangling < MaxDangling
    /\ dangling' = dangling + 1
    /\ \E h \in DestroyedHandles :
        LET a == handles[h] IN
        \/ /\ crashed' = TRUE
           /\ call' = Call("dog_dctor", h, 0, 0, "Destroyed", "crashed")
           /\ UNCHANGED heap
        \/ /\ heap' = IF heap[a].obj # 0 THEN Delete(heap, a) ELSE heap
           /\ call' = Call("dog_dctor", h, 0, 0, "Destroyed", "returned")
           /\ UNCHANGED crashed
    /\ UNCHANGED <<handles, hist, array, net>>

NextMisuse ==
    \/ Next
    \/ dog_run_dangling
    \/ dog_distance_dangling
    \/ dog_dctor_dangling

\* The shim under callers that also pass handles they have destroyed.
SpecMisuse == Init /\ [][NextMisuse]_vars

(***************************************************************************)
(* The DPI open array (svdpi.h) and std::vector<char>                      *)
(***************************************************************************)
\* The bytes an element holds.
Byte == {65, 66}
\* The bounds an array is declared with.
Idx == (INT_MAX - MaxSpan)..INT_MAX

Min(a, b) == IF a <= b THEN a ELSE b
Max(a, b) == IF a >= b THEN a ELSE b

\* The arrays the simulator passes: an array declared [left:right], in either
\* direction, with an element at every index between the two bounds, and the
\* empty dynamic array ([0:-1], no element).
Arrays ==
    {NoArray} \cup
    UNION {{[left |-> l, right |-> r, size |-> Max(l, r) - Min(l, r) + 1, elems |-> f] :
              f \in [Min(l, r)..Max(l, r) -> Byte]} : l, r \in Idx}

\* svLeft(array, 1), svRight(array, 1), svSize(array, 1)
svLeft(arr) == arr.left
svRight(arr) == arr.right
svSize(arr) == arr.size
\* svGetArrElemPtr1(array, i): a pointer to element i, NULL when the array
\* has no element i.
svGetArrElemPtr1(arr, i) ==
    IF i \in DOMAIN arr.elems THEN [null |-> FALSE, at |-> i] ELSE [null |-> TRUE, at |-> i]

\* std::vector<char> result;
Vector == [data |-> <<>>, capacity |-> 0]
\* result.reserve(size): storage for size elements, no element added.
Vector_reserve_none(vec, n) == vec
Vector_reserve(vec, n) == IF n > vec.capacity THEN [vec EXCEPT !.capacity = n] ELSE vec
\* result.emplace_back(x): x is appended; full storage is doubled first.
Vector_emplace_back(vec, x) ==
    [data |-> Append(vec.data, x),
     capacity |-> IF Len(vec.data) < vec.capacity THEN vec.capacity
                  ELSE IF vec.capacity = 0 THEN 1 ELSE 2 * vec.capacity]

(***************************************************************************)
(* read_data and send_udp_packet                                           *)
(***************************************************************************)
\* The condition of the loop: i <= high
LoopCond_ne(i, high) == i # high + 1
LoopCond(i, high) == i <= high

\* for (auto i = low; i <= high; i++) { ... }, from index i on, with the
\* vector, the indices read so far and the loop's state in st.  *value on a
\* NULL pointer ends the process.  i++ at INT_MAX overflows int, which is
\* undefined: the build traps (onOverflow = "trap") or goes on at INT_MIN
\* (onOverflow = "wrap").
RECURSIVE ReadLoop(_, _, _, _)
ReadLoop(arr, i, st, onOverflow) ==
    IF ~LoopCond(i, svRight(arr)) THEN [st EXCEPT !.status = "done"]
    ELSE LET value == svGetArrElemPtr1(arr, i) IN
         IF value.null
         THEN [st EXCEPT !.reads = Append(@, i), !.status = "crashed"]
         ELSE LET st2 == [vec |-> Vector_emplace_back(st.vec, arr.elems[value.at]),
                          reads |-> Append(st.reads, i),
                          status |-> "running"]
              IN  IF i < INT_MAX THEN ReadLoop(arr, i + 1, st2, onOverflow)
                  ELSE IF onOverflow = "trap" THEN [st2 EXCEPT !.status = "crashed"]
                  ELSE ReadLoop(arr, INT_MIN, st2, onOverflow)

\* std::vector<char> read_data(svOpenArrayHandle array)
read_data(arr, onOverflow) ==
    LET low == svLeft(arr)
        size == svSize(arr)
        result == Vector_reserve(Vector, size)
    IN  ReadLoop(arr, low, [vec |-> result, reads |-> <<>>, status |-> "running"], onOverflow)

\* The simulator calls send_udp_packet on one of its arrays.
InitMarshal ==
    /\ heap = [a \in Addr |-> FreeStorage]
    /\ handles = <<>>
    /\ hist = [h \in HandleId |-> NoHist]
    /\ call = NoCall
    /\ crashed = FALSE
    /\ dangling = 0
    /\ array \in Arrays
    /\ \E port \in {0, 65535} :
        net = [status |-> "called", ip_address |-> "127.0.0.1", port |-> port,
               byte_data |-> <<>>, capacity |-> 0, reads |-> <<>>, ret |-> -1]

\* int send_udp_packet(const char *ip_address, uint16_t port, svOpenArrayHandle data)
\* { auto byte_data = read_data(data); return 0; }
send_udp_packet ==
    /\ net.status = "called"
    /\ \E onOverflow \in {"trap", "wrap"} :
        LET r == read_data(array, onOverflow) IN
        net' = [net EXCEPT !.status = IF r.status = "done" THEN "returned" ELSE "crashed",
                           !.byte_data = r.vec.data,
                           !.capacity = r.vec.capacity,
                           !.reads = r.reads,
                           !.ret = IF r.status = "done" THEN 0 ELSE @]
    /\ UNCHANGED <<heap, handles, hist, call, crashed, dangling, array>>

NextMarshal == send_udp_packet

SpecMarshal == InitMarshal /\ [][NextMarshal]_vars

(***************************************************************************)
(* Properties                                                              *)
(***************************************************************************)
\* The member distance_ of the object handle h points to.
Accumulator(h) == heap[handles[h]].dog.distance_

\* A call has just returned to its caller.
Returned(op) == call.op = op /\ call.outcome = "returned"

\* C1 as stated: dog_distance on a handle returns the mathematical sum of the
\* amounts passed to dog_run on it since dog_ctor, whatever the amounts.
C1_QueryReturnsSum ==
    Returned("dog_distance") => call.ret = hist[call.h].sum

\* C1 amended: dog_distance on a handle returns the sum of the amounts passed
\* to dog_run on it since dog_ctor, provided no addition on the way left the
\* range of int.
C1_QueryReturnsSumInRange ==
    (Returned("dog_distance") /\ ~hist[call.h].ovf) => call.ret = hist[call.h].sum

C1_Witness ==
    /\ Returned("dog_distance")
    /\ hist[call.h].n >= 2
    /\ ~hist[call.h].ovf
    /\ hist[call.h].sum # 0
    /\ call.ret = hist[call.h].sum
    /\ Cardinality(LiveHandles) >= 2

\* C2: dog_distance called on a handle right after the dog_ctor that returned
\* it returns 0, whatever was created, incremented or destroyed before.
C2_QueryAfterCreateIsZero ==
    (Returned("dog_distance") /\ call.prev = "dog_ctor") => call.ret = 0

C2_Witness ==
    /\ Returned("dog_distance")
    /\ call.prev = "dog_ctor"
    /\ call.ret = 0
    /\ call.h = MaxHandles
    /\ \E g \in DestroyedHandles : handles[g] = handles[call.h]
    /\ \E g \in LiveHandles : Accumulator(g) # 0

\* C3 as stated: for every array, send_udp_packet returns with a buffer of
\* max(0, high - low + 1) elements in which element i - low is the array's
\* element i, for every i in [low, high].
C3_CopiesEveryElement ==
    net.status \notin {"idle", "called"} =>
        /\ net.status = "returned"
        /\ Len(net.byte_data) = Max(0, svRight(array) - svLeft(array) + 1)
        /\ \A i \in svLeft(array)..svRight(array) :
            net.byte_data[i - svLeft(array) + 1] = array.elems[i]

\* What holds of read_data's copy: the statement of C3 for the arrays whose
\* upper bound is below INT_MAX.
CopiesEveryElementBelowIntMax ==
    (net.status \notin {"idle", "called"} /\ svRight(array) < INT_MAX) =>
        /\ net.status = "returned"
        /\ net.ret = 0
        /\ Len(net.byte_data) = Max(0, svRight(array) - svLeft(array) + 1)
        /\ \A i \in svLeft(array)..svRight(array) :
            net.byte_data[i - svLeft(array) + 1] = array.elems[i]

\* C4: with low > high, send_udp_packet reads no element, builds an empty
\* buffer, does not fault and returns 0, whatever svSize reports.
C4_EmptyRange ==
    (net.status \notin {"idle", "called"} /\ svLeft(array) > svRight(array)) =>
        /\ net.status = "returned"
        /\ net.reads = <<>>
        /\ net.byte_data = <<>>
        /\ net.ret = 0

C4_Witness ==
    /\ net.status = "returned"
    /\ svLeft(array) > svRight(array) + 1
    /\ svSize(array) > 2
    /\ net.reads = <<>>
    /\ net.ret = 0

\* C5 as stated: a call of dog_run, dog_distance or dog_dctor on a handle
\* that is not live is rejected with an "invalid handle" fault.
C5_DestroyedHandleRejected ==
    (call.op \in {"dog_run", "dog_distance", "dog_dctor"} /\ call.pre # "Live")
        => call.outcome = "invalid handle"

C7_QueryHasNoSideEffect ==
    [][(call'.op = "dog_distance" /\ call'.outcome = "returned") =>
        /\ heap' = heap
        /\ handles' = handles
        /\ \A h \in HandleId : Lifecycle(h)' = Lifecycle(h)
        /\ (call.op = "dog_distance" /\ call.h = call'.h) => call'.ret = call.ret
      ]_vars

C7_Witness ==
    /\ Returned("dog_distance")
    /\ call.prev = "dog_distance"
    /\ call.ret # 0
    /\ Cardinality(LiveHandles) >= 2

\* C8 as stated: between two states in which a handle is live, the value
\* dog_distance returns for it never decreases.
C8_NeverDecreases ==
    [][\A h \in HandleId :
        (Lifecycle(h) = "Live" /\ Lifecycle(h)' = "Live") => Accumulator(h)' >= Accumulator(h)
      ]_vars

\* C8 amended: the accumulator is zero when dog_ctor returns and only dog_run
\* on the handle changes it: dog_run with amount d moves it from v to v + d
\* whenever v + d is an int, so it does not decrease for d >= 0 and decreases,
\* below zero too, for d < 0.
C8_ChangesOnlyByIncrement ==
    [][\A h \in HandleId :
        /\ (Lifecycle(h) = "Uninitialized" /\ Lifecycle(h)' = "Live") => Accumulator(h)' = 0
        /\ (Lifecycle(h) = "Live" /\ Lifecycle(h)' = "Live") =>
              /\ Accumulator(h)' # Accumulator(h) => (call'.op = "dog_run" /\ call'.h = h)
              /\ (/\ call'.op = "dog_run" /\ call'.h = h /\ call'.outcome = "returned"
                  /\ Accumulator(h) + call'.arg \in Int_t)
                    => Accumulator(h)' = Accumulator(h) + call'.arg
      ]_vars

C8_Witness ==
    /\ Returned("dog_run")
    /\ call.arg < 0
    /\ Accumulator(call.h) < 0
    /\ hist[call.h].n >= 2
    /\ ~hist[call.h].ovf

\* C9 as stated: the buffer read_data returns has svSize(array, 1) elements.
C9_LengthEqualsSize ==
    net.status = "returned" => Len(net.byte_data) = svSize(array)

\* C9 amended: read_data reserves storage for svSize(array, 1) elements, and
\* the buffer it returns has max(0, high - low + 1) elements: as many as
\* svSize reports when low <= high or the array is empty, and none for an
\* array declared with low > high, whatever its size.
C9_LengthIsAscendingRange ==
    net.status = "returned" =>
        /\ net.capacity >= svSize(array)
        /\ Len(net.byte_data) = Max(0, svRight(array) - svLeft(array) + 1)
        /\ Len(net.byte_data) = svSize(array)
              <=> (svLeft(array) <= svRight(array) \/ svSize(array) = 0)

C9_Witness ==
    /\ net.status = "returned"
    /\ svLeft(array) > svRight(array)
    /\ svSize(array) = 2
    /\ net.capacity = 2
    /\ Len(net.byte_data) = 0

\* C10: dog_ctor returns an address no live handle holds, and a call leaves
\* every live handle other than the one it is made on live, at its address
\* and with its accumulator.
C10_HandlesIsolated ==
    [][\A h \in HandleId :
        Lifecycle(h) = "Live" =>
            /\ (call'.op = "dog_ctor" /\ call'.outcome = "returned") => call'.ret # handles[h]
            /\ call'.h # h =>
                  /\ Lifecycle(h)' = "Live"
                  /\ handles'[h] = handles[h]
                  /\ Accumulator(h)' = Accumulator(h)
      ]_vars

C10_Witness ==
    /\ Returned("dog_run")
    /\ \E g \in LiveHandles :
        /\ g # call.h
        /\ hist[g].n > 0
        /\ Accumulator(g) # 0
        /\ Accumulator(g) # Accumulator(call.h)
    /\ DestroyedHandles # {}

====
